---------------------------- MODULE Spec2Model ----------------------------
(***************************************************************************)
(* The two chat launchers, chat_gpt_oss_20b.py and chat_qwen3_30b.py, as   *)
(* one state machine.  A run is one execution of main(): parse the flags,  *)
(* check the dependency, locate the model, detect the hardware, choose     *)
(* GPU or CPU, confirm CPU mode, spawn the server, poll /health, chat,     *)
(* shut the server down, hand the result to sys.exit.                      *)
(*                                                                         *)
(* The environment (imports, file system, CUDA, the server's answers, the  *)
(* user's lines, Ctrl-C) is an input of the action that reads it.          *)
(* KeyboardInterrupt is raised at the blocking calls of the try block and  *)
(* of the prompts: input(), the HTTP requests and time.sleep.  A Ctrl-C    *)
(* that arrives inside the finally block is not part of the model.  Time   *)
(* is counted in whole seconds.                                            *)
(*                                                                         *)
(* Spec is a whole run of main().  SpecChat starts at the chat prompt and  *)
(* follows longer conversations; SpecFind starts at the call of            *)
(* find_model_path and covers every file system of the three candidates.   *)
(***************************************************************************)
EXTENDS Integers, Sequences, FiniteSets, TLC

VARIABLES
    script,                \* which of the two scripts runs
    args,                  \* argparse namespace: [gpu, cpu]
    fs_input,              \* the file system, when find_model_path is studied alone
    last_line,             \* the last line input() returned
    pc,                    \* position of main()
    model_path,            \* result of find_model_path()
    system_info,           \* result of get_system_info()
    use_gpu,               \* main's use_gpu
    select_msg,            \* the message the GPU/CPU choice printed
    errors,                \* print_error messages of main and its helpers
    steps,                 \* the steps of main() that have run
    server,                \* the server subprocess
    popen_calls,           \* subprocess.Popen calls
    cmd,                   \* command line given to Popen
    cuda_visible,          \* env["CUDA_VISIBLE_DEVICES"] given to Popen
    elapsed,               \* wait_for_server: time.time() - start_time
    health,                \* bookkeeping of the GET /health polls
    wfs_result,            \* what wait_for_server returned
    conversation_history,  \* chat_with_model's list of messages
    response,              \* how the POST handled last was answered
    request,               \* the POST /v1/chat/completions in flight
    last_event,            \* what the last chat iteration did
    turns_left,            \* messages the user will still send
    posted,                \* a POST /v1/chat/completions has been sent
    pending,               \* what the try block left for after finally
    shutdown,              \* bookkeeping of the finally block
    result,                \* how main() ended
    exit_status            \* the process exit status

vars == << script, args, fs_input, last_line, pc, model_path, system_info, use_gpu, select_msg,
           errors, steps, server, popen_calls, cmd, cuda_visible,
           elapsed, health, wfs_result, conversation_history, response, request,
           last_event, turns_left, posted, pending, shutdown, result, exit_status >>

mainVars == << model_path, system_info, use_gpu, select_msg >>
serverVars == << server, popen_calls, cmd, cuda_visible >>
waitVars == << elapsed, health, wfs_result >>
chatVars == << conversation_history, response, request, last_event, turns_left,
              posted >>
endVars == << pending, shutdown, result, exit_status >>

None == "None"

Scripts == {"chat_gpt_oss_20b", "chat_qwen3_30b"}

(***************************************************************************)
(* Bounds of the model.                                                    *)
(***************************************************************************)
\* messages the user sends in a run of main()
MaxTurns == 2
\* messages the user sends when the chat loop is explored on its own
MaxChatTurns == 11

(***************************************************************************)
(* Text.  A line is a sequence of one-character strings, so that strip()   *)
(* and lower() are computed and not assumed.                               *)
(***************************************************************************)
Whitespace == {" ", "\t"}

LowerChar(c) ==
    CASE c = "B" -> "b" [] c = "E" -> "e" [] c = "H" -> "h" [] c = "I" -> "i"
      [] c = "N" -> "n" [] c = "O" -> "o" [] c = "Q" -> "q" [] c = "T" -> "t"
      [] c = "U" -> "u" [] c = "X" -> "x" [] c = "Y" -> "y"
      [] OTHER -> c

Lower(s) == [i \in 1..Len(s) |-> LowerChar(s[i])]

RECURSIVE LStrip(_)
LStrip(s) == IF s # <<>> /\ Head(s) \in Whitespace THEN LStrip(Tail(s)) ELSE s

RECURSIVE RStrip(_)
RStrip(s) ==
    IF s # <<>> /\ s[Len(s)] \in Whitespace
    THEN RStrip(SubSeq(s, 1, Len(s) - 1))
    ELSE s

Strip(s) == RStrip(LStrip(s))


(***************************************************************************)
(* find_model_path.  A file system says, for each entry of model_paths,    *)
(* whether the directory exists, whether it has a snapshots directory, and *)
(* what each name under snapshots is.  Snapshot names are character        *)
(* sequences, compared the way sorted() compares strings.                  *)
(***************************************************************************)
Candidates == <<"/data/ml/models/huggingface", "~/.cache/huggingface/hub",
                "/data/ml/models/vendor">>

SnapshotNames == { <<"9">>, <<"1", "0">> }

\* what a name under snapshots/ can be
EntryKinds == {"absent", "file", "dir", "dir_with_config"}

NoEntries == [n \in SnapshotNames |-> "absent"]

\* what <candidate>/snapshots can be; os.path.exists is true of a regular file
SnapshotsKinds == {"absent", "file", "dir"}

CandidateStates ==
    { [exists |-> FALSE, snapshots |-> "absent", entries |-> NoEntries],
      [exists |-> TRUE, snapshots |-> "absent", entries |-> NoEntries],
      [exists |-> TRUE, snapshots |-> "file", entries |-> NoEntries] }
    \cup { [exists |-> TRUE, snapshots |-> "dir", entries |-> e] :
              e \in [SnapshotNames -> EntryKinds] }

FileSystems == [1..Len(Candidates) -> CandidateStates]

\* the file systems a run of main() is explored on: the first two candidates,
\* each holding at most one snapshot name
MainFileSystems ==
    { fs \in FileSystems :
        /\ ~fs[3].exists
        /\ fs[1].entries[<<"1", "0">>] = "absent"
        /\ fs[2].entries[<<"9">>] = "absent" }

CharOrd(c) == CASE c = "0" -> 48 [] c = "1" -> 49 [] c = "9" -> 57 [] OTHER -> 0

RECURSIVE LexLess(_, _)
LexLess(a, b) ==
    IF a = <<>> THEN b # <<>>
    ELSE IF b = <<>> THEN FALSE
    ELSE IF Head(a) # Head(b) THEN CharOrd(Head(a)) < CharOrd(Head(b))
    ELSE LexLess(Tail(a), Tail(b))

\* sorted(snapshots)[-1]
LatestSnapshot(snapshots) ==
    CHOOSE s \in snapshots : \A t \in snapshots : t = s \/ LexLess(t, s)

\* os.path.join(snapshots_dir, latest_snapshot), as a string
SnapshotPath(i, n) ==
    CASE i = 1 /\ n = <<"9">> -> "/data/ml/models/huggingface/snapshots/9"
      [] i = 1 /\ n = <<"1", "0">> -> "/data/ml/models/huggingface/snapshots/10"
      [] i = 2 /\ n = <<"9">> -> "~/.cache/huggingface/hub/snapshots/9"
      [] i = 2 /\ n = <<"1", "0">> -> "~/.cache/huggingface/hub/snapshots/10"
      [] i = 3 /\ n = <<"9">> -> "/data/ml/models/vendor/snapshots/9"
      [] i = 3 /\ n = <<"1", "0">> -> "/data/ml/models/vendor/snapshots/10"

\* os.listdir of a path that exists and is not a directory
NotADirectoryError == "NotADirectoryError"

\* the body of the for loop for one candidate: a path, None to go on, or the
\* exception os.listdir raises
ProbeCandidate(fs, i) ==
    LET c == fs[i]
        snapshots == {n \in SnapshotNames :
                         c.entries[n] \in {"dir", "dir_with_config"}}
    IN  IF c.exists /\ c.snapshots # "absent"
        THEN IF c.snapshots = "file" THEN NotADirectoryError
             ELSE IF snapshots # {}
             THEN LET latest_snapshot == LatestSnapshot(snapshots)
                  IN  IF c.entries[latest_snapshot] = "dir_with_config"
                      THEN SnapshotPath(i, latest_snapshot)
                      ELSE None
             ELSE None
        ELSE None

\* the loop from candidate i on: the first probe that returns a path or raises
\* ends it
RECURSIVE FindFrom(_, _)
FindFrom(fs, i) ==
    IF i > Len(Candidates) THEN None
    ELSE IF ProbeCandidate(fs, i) # None THEN ProbeCandidate(fs, i)
    ELSE FindFrom(fs, i + 1)

find_model_path(fs) == FindFrom(fs, 1)

(***************************************************************************)
(* get_system_info, reduced to the two facts main reads to choose the      *)
(* device.  Without CUDA, or when torch raises while CUDA is reported, the *)
(* memory is 0.                                                            *)
(***************************************************************************)
\* values of round(total_memory / 1024**3) the hardware is drawn from
GpuMemories == {0, 23, 24, 39, 40}

get_system_info(cuda, memory_gb) ==
    [has_cuda |-> cuda, gpu_memory_gb |-> IF cuda THEN memory_gb ELSE 0]

SystemInfos == {get_system_info(c, m) : c \in BOOLEAN, m \in GpuMemories}

\* the VRAM a GPU needs to be auto-selected
MinVram == 24
\* chat_qwen3_30b.py: the VRAM above which the choice is announced without a warning
ComfortVram == 40

(***************************************************************************)
(* main: "Determine GPU/CPU usage".  The choice and the message printed.   *)
(***************************************************************************)
\* mutant: chat_qwen3_30b.py selects the GPU only from 40 GB
AutoSelect_ComfortOnly(s, info) ==
    IF info.has_cuda
       /\ info.gpu_memory_gb >= (IF s = "chat_qwen3_30b" THEN ComfortVram
                                                          ELSE MinVram)
    THEN [use_gpu |-> TRUE, msg |-> "auto_gpu"]
    ELSE [use_gpu |-> FALSE,
          msg |-> IF info.has_cuda THEN "cpu_low_vram" ELSE "cpu_no_cuda"]

AutoSelect(s, info) ==
    IF s = "chat_qwen3_30b"
    THEN IF info.has_cuda /\ info.gpu_memory_gb >= ComfortVram
         THEN [use_gpu |-> TRUE, msg |-> "auto_gpu"]
         ELSE IF info.has_cuda /\ info.gpu_memory_gb >= MinVram
         THEN [use_gpu |-> TRUE, msg |-> "auto_gpu_tight"]
         ELSE [use_gpu |-> FALSE,
               msg |-> IF info.has_cuda THEN "cpu_low_vram" ELSE "cpu_no_cuda"]
    ELSE IF info.has_cuda /\ info.gpu_memory_gb >= MinVram
         THEN [use_gpu |-> TRUE, msg |-> "auto_gpu"]
         ELSE [use_gpu |-> FALSE,
               msg |-> IF info.has_cuda THEN "cpu_low_vram" ELSE "cpu_no_cuda"]

\* mutant: --gpu is honoured only above the VRAM threshold
SelectDevice_GpuNeedsVram(s, a, info) ==
    IF a.cpu THEN [use_gpu |-> FALSE, msg |-> "cpu_forced"]
    ELSE IF a.gpu
    THEN IF info.has_cuda /\ info.gpu_memory_gb >= MinVram
         THEN [use_gpu |-> TRUE, msg |-> "gpu_forced"]
         ELSE [use_gpu |-> FALSE, msg |-> "gpu_unavailable_fallback"]
    ELSE AutoSelect(s, info)

\* mutant: --gpu is tested before --cpu
SelectDevice_GpuFirst(s, a, info) ==
    IF a.gpu
    THEN IF info.has_cuda
         THEN [use_gpu |-> TRUE, msg |-> "gpu_forced"]
         ELSE [use_gpu |-> FALSE, msg |-> "gpu_unavailable_fallback"]
    ELSE IF a.cpu THEN [use_gpu |-> FALSE, msg |-> "cpu_forced"]
    ELSE AutoSelect(s, info)

SelectDevice(s, a, info) ==
    IF a.cpu THEN [use_gpu |-> FALSE, msg |-> "cpu_forced"]
    ELSE IF a.gpu
    THEN IF info.has_cuda
         THEN [use_gpu |-> TRUE, msg |-> "gpu_forced"]
         ELSE [use_gpu |-> FALSE, msg |-> "gpu_unavailable_fallback"]
    ELSE AutoSelect(s, info)

(***************************************************************************)
(* start_sglang_server: the command line and the environment.              *)
(***************************************************************************)
\* str(port), for the default of --port
DefaultPort(s) == IF s = "chat_qwen3_30b" THEN "30002" ELSE "30001"

MemFraction(s) == IF s = "chat_qwen3_30b" THEN "0.85" ELSE "0.9"

BaseCmd(s, path, port) ==
    << "python", "-m", "sglang.launch_server",
       "--model-path", path, "--port", port, "--host", "127.0.0.1" >>
    \o (IF s = "chat_qwen3_30b" THEN <<>> ELSE << "--trust-remote-code" >>)

DeviceArgs(s, gpu) ==
    IF gpu
    THEN << "--device", "cuda", "--mem-fraction-static", MemFraction(s) >>
    ELSE << "--device", "cpu" >>

BuildCmd(s, path, gpu, port) == BaseCmd(s, path, port) \o DeviceArgs(s, gpu)

CudaVisibleDevices(gpu) == IF gpu THEN "0" ELSE ""

(***************************************************************************)
(* wait_for_server and chat_with_model: constants and inputs.              *)
(***************************************************************************)
\* wait_for_server(port, timeout=300)
WaitTimeoutSeconds == 300
\* time.sleep(2)
SleepSeconds == 2
\* how long a GET /health can take, within its timeout=5
PollDurations == {0, 4}
\* what a GET /health answers: a status code, or a requests.RequestException
HealthAnswers == {"200", "503", "RequestException"}

LoopCondition(t) == t < WaitTimeoutSeconds

\* mutant: any HTTP response counts as ready
IsReady_AnyResponse(answer) == answer # "RequestException"

IsReady(answer) == answer = "200"

\* len(conversation_history) > 20
HistoryLimit == 20

QuitWords == { <<"q", "u", "i", "t">>, <<"e", "x", "i", "t">>, <<"b", "y", "e">> }

NoAnswers == { <<"n">>, <<"n", "o">> }

\* lines typed at "Continue? [Y/n]"
ConfirmLines ==
    { <<>>, <<"y">>, <<"n">>, <<" ", "N", "\t">>, <<"N", "O">>,
      <<"n", "o", "t">>, <<"n", " ", "o">> }

\* lines typed at the chat prompt
ChatLines ==
    { <<>>, <<" ", "\t">>, <<"q", "u", "i", "t">>, <<" ", "E", "x", "i", "t">>,
      <<"B", "Y", "E", " ">>, <<" ", "H", "i", " ">> }

\* what a POST /v1/chat/completions ends in
PostOutcomes ==
    { "200_choices", "200_empty_choices", "200_no_choices", "200_malformed",
      "503", "Timeout", "RequestException", "KeyboardInterrupt" }

UserMessage(text) == [role |-> "user", content |-> text]

AssistantMessage(text) == [role |-> "assistant", content |-> text]

\* result['choices'][0]['message']['content'] of a well-formed answer
Reply == <<"o", "k">>

\* conversation_history[-20:] when longer than 20
Truncate(h) ==
    IF Len(h) > HistoryLimit
    THEN SubSeq(h, Len(h) - HistoryLimit + 1, Len(h))
    ELSE h

\* server_process.wait(timeout=10)
ShutdownWaitSeconds == 10

\* seconds the server takes to exit once terminate() was called
ExitDelays == {0, 9, 11}

\* terminate() has not been called
NotTerminated == -1

NoRequest == [sent |-> FALSE, messages |-> <<>>]

\* before any input(): no line input() can return holds a newline
NoLine == << "\n" >>

\* the file system of a run whose find_model_path reads the environment
NoFileSystem ==
    [i \in 1..Len(Candidates) |->
        [exists |-> FALSE, snapshots |-> "absent", entries |-> NoEntries]]

(***************************************************************************)
(* The state after argparse.                                               *)
(***************************************************************************)
Init ==
    /\ script \in Scripts
    /\ args \in [gpu : BOOLEAN, cpu : BOOLEAN]
    /\ fs_input = NoFileSystem
    /\ last_line = NoLine
    /\ pc = "check_sglang"
    /\ model_path = None
    /\ system_info = [has_cuda |-> FALSE, gpu_memory_gb |-> 0]
    /\ use_gpu = FALSE
    /\ select_msg = "none"
    /\ errors = {}
    /\ steps = {}
    /\ server = "none"
    /\ popen_calls = 0
    /\ cmd = <<>>
    /\ cuda_visible = "unset"
    /\ elapsed = 0
    /\ health = [polled |-> FALSE, last |-> "none", ready |-> FALSE,
                 after_ready |-> FALSE]
    /\ wfs_result = "none"
    /\ conversation_history = <<>>
    /\ response = "none"
    /\ request = NoRequest
    /\ last_event = "none"
    /\ turns_left = MaxTurns
    /\ posted = FALSE
    /\ pending = "none"
    /\ shutdown = [terminate_calls |-> 0, wait_calls |-> 0, kill_calls |-> 0,
                 exit_delay |-> NotTerminated]
    /\ result = "running"
    /\ exit_status = -1

\* main() ends without entering the try block
MainEnds(how) ==
    /\ pc' = "main_done"
    /\ result' = how
    /\ UNCHANGED << pending, shutdown, exit_status >>

\* main() goes on to its next step
MainGoes(next) ==
    /\ pc' = next
    /\ UNCHANGED endVars

(***************************************************************************)
(* main, up to the spawn.                                                  *)
(***************************************************************************)
\* mutant: the result of check_sglang_installed is dropped
CheckSglang_IgnoresResult(installed) ==
    /\ pc = "check_sglang"
    /\ steps' = steps \cup {"check_sglang_installed"}
    /\ MainGoes("find_model")
    /\ errors' = IF installed THEN errors ELSE errors \cup {"sglang_not_found"}
    /\ UNCHANGED << script, args, fs_input, last_line, mainVars, serverVars, waitVars, chatVars >>

CheckSglang(installed) ==
    /\ pc = "check_sglang"
    /\ steps' = steps \cup {"check_sglang_installed"}
    /\ IF installed
       THEN MainGoes("find_model") /\ UNCHANGED errors
       ELSE MainEnds("return 1") /\ errors' = errors \cup {"sglang_not_found"}
    /\ UNCHANGED << script, args, fs_input, last_line, mainVars, serverVars, waitVars, chatVars >>

FindModel(fs) ==
    /\ pc = "find_model"
    /\ steps' = steps \cup {"find_model_path"}
    /\ IF find_model_path(fs) = NotADirectoryError
       THEN /\ MainEnds("raise NotADirectoryError")
            /\ UNCHANGED << model_path, errors >>
       ELSE /\ model_path' = find_model_path(fs)
            /\ IF model_path' # None
               THEN MainGoes("determine_device") /\ UNCHANGED errors
               ELSE MainEnds("return 1") /\ errors' = errors \cup {"model_not_found"}
    /\ UNCHANGED << script, args, fs_input, last_line, system_info, use_gpu, select_msg,
                    serverVars, waitVars, chatVars >>

DetermineDevice(info) ==
    /\ pc = "determine_device"
    /\ steps' = steps \cup {"get_system_info"}
    /\ system_info' = info
    /\ LET choice == SelectDevice(script, args, info)
       IN  /\ use_gpu' = choice.use_gpu
           /\ select_msg' = choice.msg
           /\ MainGoes(IF choice.use_gpu THEN "start_server" ELSE "confirm_cpu")
    /\ UNCHANGED << script, args, fs_input, last_line, model_path, errors, serverVars, waitVars,
                    chatVars >>

\* mutant: the answer is compared as typed
ConfirmCpu_AsTyped(line) ==
    /\ pc = "confirm_cpu"
    /\ steps' = steps \cup {"cpu_prompt"}
    /\ last_line' = line
    /\ IF line \in NoAnswers
       THEN MainEnds("return 0")
       ELSE MainGoes("start_server")
    /\ UNCHANGED << script, args, fs_input, mainVars, errors, serverVars, waitVars,
                    chatVars >>

ConfirmCpu(line) ==
    /\ pc = "confirm_cpu"
    /\ steps' = steps \cup {"cpu_prompt"}
    /\ last_line' = line
    /\ IF Lower(Strip(line)) \in NoAnswers
       THEN MainEnds("return 0")
       ELSE MainGoes("start_server")
    /\ UNCHANGED << script, args, fs_input, mainVars, errors, serverVars, waitVars,
                    chatVars >>

ConfirmRaises(e) ==
    /\ pc = "confirm_cpu"
    /\ steps' = steps \cup {"cpu_prompt"}
    /\ MainEnds(e)
    /\ UNCHANGED << script, args, fs_input, last_line, mainVars, errors, serverVars, waitVars,
                    chatVars >>

StartServer(popen_ok) ==
    /\ pc = "start_server"
    /\ steps' = steps \cup {"start_sglang_server"}
    /\ popen_calls' = popen_calls + 1
    /\ cmd' = BuildCmd(script, model_path, use_gpu, DefaultPort(script))
    /\ cuda_visible' = CudaVisibleDevices(use_gpu)
    /\ IF popen_ok
       THEN /\ server' = "running"
            /\ MainGoes("wait_for_server")
            /\ UNCHANGED errors
       ELSE /\ server' = "none"
            /\ MainEnds("return 1")
            /\ errors' = errors \cup {"server_start_failed"}
    /\ UNCHANGED << script, args, fs_input, last_line, mainVars, waitVars, chatVars >>

(***************************************************************************)
(* main: the try block.  wait_for_server, one loop iteration per step.     *)
(***************************************************************************)
\* mutant: the result of wait_for_server is not tested
AfterWait_AlwaysChats(ready) ==
    [pc |-> "chat_input", pending |-> "none",
     steps |-> {"wait_for_server", "chat_with_model"}]

\* mutant: a bare `return` where `return 1` stands
AfterWait_Returns0(ready) ==
    IF ready
    THEN [pc |-> "chat_input", pending |-> "none",
          steps |-> {"wait_for_server", "chat_with_model"}]
    ELSE [pc |-> "finally", pending |-> "return 0",
          steps |-> {"wait_for_server"}]

\* main: `if not wait_for_server(port): return 1`, else chat_with_model(port)
AfterWait(ready) ==
    IF ready
    THEN [pc |-> "chat_input", pending |-> "none",
          steps |-> {"wait_for_server", "chat_with_model"}]
    ELSE [pc |-> "finally", pending |-> "return 1",
          steps |-> {"wait_for_server"}]

\* one iteration of the while loop: the GET, then return True or sleep
WaitPoll(answer, duration) ==
    /\ pc = "wait_for_server"
    /\ LoopCondition(elapsed)
    /\ health' = [polled |-> TRUE, last |-> answer,
                  ready |-> health.ready
                            \/ (answer = "200" /\ elapsed < WaitTimeoutSeconds),
                  after_ready |-> health.after_ready \/ health.last = "200"]
    /\ IF IsReady(answer)
       THEN /\ wfs_result' = "True"
            /\ elapsed' = 0
            /\ pc' = AfterWait(TRUE).pc
            /\ pending' = AfterWait(TRUE).pending
            /\ steps' = steps \cup AfterWait(TRUE).steps
       ELSE /\ wfs_result' = wfs_result
            /\ elapsed' = elapsed + duration + SleepSeconds
            /\ pc' = pc
            /\ pending' = pending
            /\ steps' = steps \cup {"wait_for_server"}
    /\ UNCHANGED << script, args, fs_input, last_line, mainVars, errors, serverVars, chatVars,
                    shutdown, result, exit_status >>

\* the loop condition fails: print the error, return False
WaitTimesOut ==
    /\ pc = "wait_for_server"
    /\ ~LoopCondition(elapsed)
    /\ errors' = errors \cup {"server_timeout"}
    /\ wfs_result' = "False"
    /\ elapsed' = 0
    /\ pc' = AfterWait(FALSE).pc
    /\ pending' = AfterWait(FALSE).pending
    /\ steps' = steps \cup AfterWait(FALSE).steps
    /\ UNCHANGED << script, args, fs_input, last_line, mainVars, serverVars, health, chatVars,
                    shutdown, result, exit_status >>

\* mutant: the wait is outside the try block
WaitRaises_NoFinally(e) ==
    /\ pc = "wait_for_server"
    /\ LoopCondition(elapsed)
    /\ steps' = steps \cup {"wait_for_server"}
    /\ elapsed' = 0
    /\ pc' = "main_done"
    /\ pending' = e
    /\ result' = e
    /\ UNCHANGED << script, args, fs_input, last_line, mainVars, errors, serverVars, health,
                    wfs_result, chatVars, shutdown, exit_status >>

\* an exception wait_for_server does not catch leaves the try block
WaitRaises(e) ==
    /\ pc = "wait_for_server"
    /\ LoopCondition(elapsed)
    /\ steps' = steps \cup {"wait_for_server"}
    /\ elapsed' = 0
    /\ pc' = "finally"
    /\ pending' = e
    /\ UNCHANGED << script, args, fs_input, last_line, mainVars, errors, serverVars, health,
                    wfs_result, chatVars, shutdown, result, exit_status >>

(***************************************************************************)
(* chat_with_model: input() up to the POST, then the answer's handling.    *)
(***************************************************************************)
\* leaving the while loop, by break
ChatBreaks ==
    /\ pc' = "finally"
    /\ pending' = "return 0"

ChatInput(line) ==
    /\ pc = "chat_input"
    /\ LET user_input == Strip(line)
       IN  IF Lower(user_input) \in QuitWords
           THEN /\ last_event' = "goodbye"
                /\ ChatBreaks
                /\ UNCHANGED << conversation_history, request, turns_left,
                                posted >>
           ELSE IF user_input = <<>>
           THEN /\ last_event' = "empty_line"
                /\ UNCHANGED << pc, pending, conversation_history, request,
                                turns_left, posted >>
           ELSE /\ turns_left > 0
                /\ conversation_history' =
                       Append(conversation_history, UserMessage(user_input))
                /\ request' = [sent |-> TRUE, messages |-> conversation_history']
                /\ turns_left' = turns_left - 1
                /\ posted' = TRUE
                /\ last_event' = "thinking"
                /\ pc' = "chat_post"
                /\ UNCHANGED pending
    /\ last_line' = line
    /\ response' = "none"
    /\ UNCHANGED << script, args, fs_input, mainVars, errors, steps, serverVars,
                    waitVars, shutdown, result, exit_status >>

\* mutant: whatever input() raises ends the loop
ChatInputRaises_AlwaysBreaks(e) ==
    /\ pc = "chat_input"
    /\ last_event' = IF e = "KeyboardInterrupt" THEN "interrupted"
                     ELSE "unexpected_error"
    /\ response' = "none"
    /\ ChatBreaks
    /\ UNCHANGED << script, args, fs_input, last_line, mainVars, errors, steps, serverVars,
                    waitVars, conversation_history, request, turns_left, posted,
                    shutdown, result, exit_status >>

\* input() raises: Ctrl-C breaks, anything else is reported
ChatInputRaises(e) ==
    /\ pc = "chat_input"
    /\ response' = "none"
    /\ IF e = "KeyboardInterrupt"
       THEN last_event' = "interrupted" /\ ChatBreaks
       ELSE last_event' = "unexpected_error" /\ UNCHANGED << pc, pending >>
    /\ UNCHANGED << script, args, fs_input, last_line, mainVars, errors, steps, serverVars,
                    waitVars, conversation_history, request, turns_left, posted,
                    shutdown, result, exit_status >>

\* what the handling of an answer prints, and whether it has a reply
HandleAnswer(outcome) ==
    CASE outcome = "200_choices" -> "assistant"
      [] outcome \in {"200_empty_choices", "200_no_choices"} -> "no_response"
      [] outcome = "200_malformed" -> "unexpected_error"
      [] outcome = "503" -> "server_error"
      [] outcome = "Timeout" -> "timed_out"
      [] outcome = "RequestException" -> "request_failed"
      [] outcome = "KeyboardInterrupt" -> "interrupted"

\* mutant: a turn without a reply takes the user's message back
ChatAnswer_RollsBack(outcome) ==
    /\ pc = "chat_post"
    /\ response' = outcome
    /\ last_event' = HandleAnswer(outcome)
    /\ request' = NoRequest
    /\ conversation_history' =
           IF last_event' = "assistant"
           THEN Truncate(Append(conversation_history, AssistantMessage(Reply)))
           ELSE SubSeq(conversation_history, 1, Len(conversation_history) - 1)
    /\ IF last_event' = "interrupted"
       THEN ChatBreaks
       ELSE pc' = "chat_input" /\ UNCHANGED pending
    /\ UNCHANGED << script, args, fs_input, last_line, mainVars, errors, steps, serverVars,
                    waitVars, turns_left, posted, shutdown, result, exit_status >>

\* mutant: a failed request ends the loop
ChatAnswer_FailureBreaks(outcome) ==
    /\ pc = "chat_post"
    /\ response' = outcome
    /\ last_event' = HandleAnswer(outcome)
    /\ request' = NoRequest
    /\ conversation_history' =
           IF last_event' = "assistant"
           THEN Truncate(Append(conversation_history, AssistantMessage(Reply)))
           ELSE conversation_history
    /\ IF last_event' \in {"interrupted", "timed_out", "request_failed",
                           "server_error"}
       THEN ChatBreaks
       ELSE pc' = "chat_input" /\ UNCHANGED pending
    /\ UNCHANGED << script, args, fs_input, last_line, mainVars, errors, steps, serverVars,
                    waitVars, turns_left, posted, shutdown, result, exit_status >>

ChatAnswer(outcome) ==
    /\ pc = "chat_post"
    /\ response' = outcome
    /\ last_event' = HandleAnswer(outcome)
    /\ request' = NoRequest
    /\ conversation_history' =
           IF last_event' = "assistant"
           THEN Truncate(Append(conversation_history, AssistantMessage(Reply)))
           ELSE conversation_history
    /\ IF last_event' = "interrupted"
       THEN ChatBreaks
       ELSE pc' = "chat_input" /\ UNCHANGED pending
    /\ UNCHANGED << script, args, fs_input, last_line, mainVars, errors, steps, serverVars,
                    waitVars, turns_left, posted, shutdown, result, exit_status >>

(***************************************************************************)
(* main: the finally block, and sys.exit(main()).                          *)
(***************************************************************************)
\* mutant: a server that outlives the wait is killed and main returns
Shutdown_KillsAfterWait(exit_delay) ==
    /\ pc = "finally"
    /\ steps' = steps \cup {"finally"}
    /\ shutdown' = [shutdown EXCEPT !.terminate_calls = @ + 1,
                                    !.wait_calls = @ + 1,
                                    !.kill_calls =
                                        IF exit_delay < ShutdownWaitSeconds
                                        THEN @ ELSE @ + 1,
                                    !.exit_delay = exit_delay]
    /\ server' = "exited"
    /\ result' = pending
    /\ pc' = "main_done"
    /\ UNCHANGED << script, args, fs_input, last_line, mainVars, errors, popen_calls, cmd,
                    cuda_visible, waitVars, chatVars, pending, exit_status >>

\* terminate(), then wait(timeout=10), for a server that takes exit_delay
\* seconds to exit: wait returns, or raises TimeoutExpired
Shutdown(exit_delay) ==
    /\ pc = "finally"
    /\ steps' = steps \cup {"finally"}
    /\ shutdown' = [shutdown EXCEPT !.terminate_calls = @ + 1,
                                    !.wait_calls = @ + 1,
                                    !.exit_delay = exit_delay]
    /\ server' = IF exit_delay < ShutdownWaitSeconds THEN "exited" ELSE "running"
    /\ result' = IF exit_delay < ShutdownWaitSeconds THEN pending
                 ELSE "raise TimeoutExpired"
    /\ pc' = "main_done"
    /\ UNCHANGED << script, args, fs_input, last_line, mainVars, errors, popen_calls, cmd,
                    cuda_visible, waitVars, chatVars, pending, exit_status >>

\* the status the interpreter exits with
ExitStatus(how) ==
    CASE how = "return 0" -> 0
      [] how = "return 1" -> 1
      [] how = "raise KeyboardInterrupt" -> 130
      [] OTHER -> 1

SysExit ==
    /\ pc = "main_done"
    /\ exit_status' = ExitStatus(result)
    /\ pc' = "exited"
    /\ UNCHANGED << script, args, fs_input, last_line, mainVars, errors, steps, serverVars,
                    waitVars, chatVars, pending, shutdown, result >>

Next ==
    \/ \E installed \in BOOLEAN : CheckSglang(installed)
    \/ \E fs \in MainFileSystems : FindModel(fs)
    \/ \E info \in SystemInfos : DetermineDevice(info)
    \/ \E line \in ConfirmLines : ConfirmCpu(line)
    \/ \E e \in {"raise KeyboardInterrupt", "raise EOFError"} : ConfirmRaises(e)
    \/ \E popen_ok \in BOOLEAN : StartServer(popen_ok)
    \/ \E answer \in HealthAnswers, duration \in PollDurations :
           WaitPoll(answer, duration)
    \/ WaitTimesOut
    \/ \E e \in {"raise KeyboardInterrupt", "raise Exception"} : WaitRaises(e)
    \/ \E line \in ChatLines : ChatInput(line)
    \/ \E e \in {"KeyboardInterrupt", "EOFError"} : ChatInputRaises(e)
    \/ \E outcome \in PostOutcomes : ChatAnswer(outcome)
    \/ \E exit_delay \in ExitDelays : Shutdown(exit_delay)
    \/ SysExit

Spec == Init /\ [][Next]_vars

(***************************************************************************)
(* The chat loop on its own: the state in which main() calls               *)
(* chat_with_model after a GPU launch, with more messages to come.         *)
(***************************************************************************)
InitChat ==
    /\ script \in Scripts
    /\ args = [gpu |-> TRUE, cpu |-> FALSE]
    /\ fs_input = NoFileSystem
    /\ last_line = NoLine
    /\ pc = "chat_input"
    /\ model_path = SnapshotPath(1, <<"9">>)
    /\ system_info = get_system_info(TRUE, MinVram)
    /\ use_gpu = TRUE
    /\ select_msg = "gpu_forced"
    /\ errors = {}
    /\ steps = {"check_sglang_installed", "find_model_path", "get_system_info",
                "start_sglang_server", "wait_for_server", "chat_with_model"}
    /\ server = "running"
    /\ popen_calls = 1
    /\ cmd = BuildCmd(script, model_path, TRUE, DefaultPort(script))
    /\ cuda_visible = CudaVisibleDevices(TRUE)
    /\ elapsed = 0
    /\ health = [polled |-> TRUE, last |-> "200", ready |-> TRUE,
                 after_ready |-> FALSE]
    /\ wfs_result = "True"
    /\ conversation_history = <<>>
    /\ response = "none"
    /\ request = NoRequest
    /\ last_event = "none"
    /\ turns_left = MaxChatTurns
    /\ posted = FALSE
    /\ pending = "none"
    /\ shutdown = [terminate_calls |-> 0, wait_calls |-> 0, kill_calls |-> 0,
                 exit_delay |-> NotTerminated]
    /\ result = "running"
    /\ exit_status = -1

NextChat ==
    \/ \E line \in ChatLines : ChatInput(line)
    \/ \E e \in {"KeyboardInterrupt", "EOFError"} : ChatInputRaises(e)
    \/ \E outcome \in PostOutcomes : ChatAnswer(outcome)
    \/ \E exit_delay \in ExitDelays : Shutdown(exit_delay)
    \/ SysExit

SpecChat == InitChat /\ [][NextChat]_vars

\* InitChat, but for the messages to come, is a state of Spec
ChatEntry ==
    /\ args = [gpu |-> TRUE, cpu |-> FALSE]
    /\ fs_input = NoFileSystem
    /\ last_line = NoLine
    /\ pc = "chat_input"
    /\ model_path = SnapshotPath(1, <<"9">>)
    /\ system_info = get_system_info(TRUE, MinVram)
    /\ use_gpu = TRUE
    /\ select_msg = "gpu_forced"
    /\ errors = {}
    /\ steps = {"check_sglang_installed", "find_model_path", "get_system_info",
                "start_sglang_server", "wait_for_server", "chat_with_model"}
    /\ server = "running"
    /\ popen_calls = 1
    /\ cmd = BuildCmd(script, model_path, TRUE, DefaultPort(script))
    /\ cuda_visible = CudaVisibleDevices(TRUE)
    /\ elapsed = 0
    /\ health = [polled |-> TRUE, last |-> "200", ready |-> TRUE,
                 after_ready |-> FALSE]
    /\ wfs_result = "True"
    /\ conversation_history = <<>>
    /\ response = "none"
    /\ request = NoRequest
    /\ last_event = "none"
    /\ posted = FALSE
    /\ pending = "none"
    /\ shutdown = [terminate_calls |-> 0, wait_calls |-> 0, kill_calls |-> 0,
                 exit_delay |-> NotTerminated]
    /\ result = "running"
    /\ exit_status = -1

(***************************************************************************)
(* Readiness before chat.                                                  *)
(***************************************************************************)
InChat == pc \in {"chat_input", "chat_post"}

MainOver == pc \in {"main_done", "exited"}

\* C1: main enters chat_with_model, and a POST to /v1/chat/completions is
\* sent, only after wait_for_server has returned True in this run, that is
\* after a GET /health of this run was answered with status 200.
C1_ChatOnlyAfterReady ==
    (InChat \/ "chat_with_model" \in steps \/ posted \/ request.sent)
        => (wfs_result = "True" /\ health.ready /\ health.polled)

C1_Witness == posted /\ pc = "chat_post" /\ wfs_result = "True"

\* C2: wait_for_server returns True exactly when a poll started below the
\* timeout was answered 200, and returns at that poll without polling again;
\* any other answer keeps it in the loop after a sleep of 2 seconds; it
\* returns False once the elapsed time has reached the timeout with no 200.
C2_ReturnsTrueIffReady ==
    /\ wfs_result # "none" => (wfs_result = "True" <=> health.ready)
    /\ ~health.after_ready
    /\ health.last = "200" => wfs_result = "True"

C2_PollStep ==
    (pc = "wait_for_server" /\ (elapsed' > elapsed \/ health' # health))
        => /\ health'.polled
           /\ elapsed < 300
           /\ IF health'.last = "200"
              THEN wfs_result' = "True" /\ pc' # "wait_for_server"
              ELSE /\ wfs_result' = "none"
                   /\ pc' = "wait_for_server"
                   /\ elapsed' - elapsed \in {2 + d : d \in PollDurations}

C2_TimeoutStep ==
    /\ (wfs_result = "none" /\ wfs_result' = "False")
           => (elapsed >= 300 /\ ~health.ready)
    /\ (pc = "wait_for_server" /\ elapsed >= 300) => wfs_result' = "False"

C2_WaitForServer ==
    /\ []C2_ReturnsTrueIffReady
    /\ [][C2_PollStep]_vars
    /\ [][C2_TimeoutStep]_vars

C2_Witness == wfs_result = "True" /\ health.ready /\ health.last = "200"

\* C2, the other way out: a run that polled, never saw a 200, and returned False
C2_WitnessFalse ==
    wfs_result = "False" /\ health.polled /\ health.last = "RequestException"

\* C3: when wait_for_server returns False, the timeout error is printed, the
\* chat loop is never started, and the process exits with status 1.
C3_NotReadyExits1 ==
    wfs_result = "False"
        => /\ "server_timeout" \in errors
           /\ "chat_with_model" \notin steps
           /\ ~InChat /\ ~posted
           /\ pc \in {"finally", "main_done", "exited"}
           /\ pending = "return 1"
           /\ MainOver => result \in {"return 1", "raise TimeoutExpired"}
           /\ pc = "exited" => exit_status = 1

C3_Witness ==
    wfs_result = "False" /\ pc = "exited" /\ result = "return 1"
        /\ exit_status = 1

\* C3, when the server outlives wait(timeout=10): status 1 by the uncaught
\* TimeoutExpired
C3_WitnessWaitExpires ==
    wfs_result = "False" /\ pc = "exited" /\ result = "raise TimeoutExpired"
        /\ server = "running" /\ exit_status = 1

\* C4: when SGLang cannot be imported or find_model_path returns None, main
\* returns 1 at once: no hardware detection, no prompt, no spawn, no /health
\* poll, no chat request; and with SGLang missing, no model lookup.
SglangMissing == "sglang_not_found" \in errors

ModelMissing == "model_not_found" \in errors

C4_MissingDependencyExits1 ==
    (SglangMissing \/ ModelMissing)
        => /\ MainOver
           /\ result = "return 1"
           /\ pc = "exited" => exit_status = 1
           /\ steps \subseteq {"check_sglang_installed", "find_model_path"}
           /\ popen_calls = 0 /\ server = "none" /\ cmd = <<>>
           /\ ~health.polled /\ ~posted /\ ~request.sent
           /\ shutdown.terminate_calls = 0
           /\ SglangMissing => "find_model_path" \notin steps

C4_Witness ==
    ModelMissing /\ ~SglangMissing /\ pc = "exited" /\ exit_status = 1

(***************************************************************************)
(* The chat loop.                                                          *)
(***************************************************************************)
RequestFailures == {"server_error", "timed_out", "request_failed"}

\* C5: a chat request that ends in a timeout, another RequestException or a
\* non-200 status only reports the error: the loop goes back to the prompt,
\* nothing is raised, and the server is neither terminated nor waited for.
C5_AfterFailure ==
    last_event \in RequestFailures
        => /\ pc = "chat_input"
           /\ request = NoRequest
           /\ pending = "none" /\ result = "running"
           /\ server = "running"
           /\ shutdown.terminate_calls = 0 /\ shutdown.wait_calls = 0

C5_FailureStep ==
    (pc = "chat_post" /\ last_event' \in RequestFailures)
        => /\ pc' = "chat_input"
           /\ UNCHANGED << server, shutdown, pending, result, exit_status >>

C5_ChatFailureContinues == []C5_AfterFailure /\ [][C5_FailureStep]_vars

C5_Witness ==
    /\ last_event = "server_error" /\ pc = "chat_input"
    /\ Len(conversation_history) >= 3 /\ server = "running"

\* C6: every time the loop is back at the prompt, the conversation history
\* holds at most 20 entries.
C6_HistoryAtMost20 ==
    pc = "chat_input" => Len(conversation_history) <= 20

(***************************************************************************)
(* The server subprocess.                                                  *)
(***************************************************************************)
Spawned == "start_sglang_server" \in steps /\ server # "none"

SpawnFailed == "server_start_failed" \in errors

\* C7: Popen is called at most once per run; once it has succeeded, main is
\* left only after terminate() was called on the process; when it fails,
\* main returns 1 with no /health poll and no terminate().
C7_OneServerAlwaysTerminated ==
    /\ popen_calls <= 1
    /\ popen_calls = 0 => server = "none"
    /\ (Spawned /\ MainOver) => shutdown.terminate_calls = 1
    /\ shutdown.terminate_calls <= 1
    /\ shutdown.terminate_calls = 1 => Spawned
    /\ SpawnFailed
           => /\ ~Spawned /\ MainOver /\ result = "return 1"
              /\ ~health.polled /\ "wait_for_server" \notin steps
              /\ shutdown.terminate_calls = 0

C7_Witness ==
    /\ Spawned /\ pc = "exited" /\ pending = "raise KeyboardInterrupt"
    /\ shutdown.terminate_calls = 1

\* the four ways out of the try block all pass terminate()
C7_WitnessTimeout ==
    Spawned /\ MainOver /\ wfs_result = "False" /\ shutdown.terminate_calls = 1

C7_WitnessQuit ==
    Spawned /\ MainOver /\ last_event = "goodbye" /\ shutdown.terminate_calls = 1

C7_WitnessCtrlC ==
    Spawned /\ MainOver /\ last_event = "interrupted"
        /\ shutdown.terminate_calls = 1

C7_WitnessSpawnFailed == SpawnFailed /\ pc = "exited" /\ exit_status = 1

(***************************************************************************)
(* The device flags.                                                       *)
(***************************************************************************)
\* the command line holds `name value`
HasOption(c, name, value) ==
    \E i \in 1..(Len(c) - 1) : c[i] = name /\ c[i + 1] = value

HasArg(c, name) == \E i \in 1..Len(c) : c[i] = name

Launched == popen_calls > 0

GpuLaunch ==
    /\ HasOption(cmd, "--device", "cuda")
    /\ ~HasOption(cmd, "--device", "cpu")
    /\ cuda_visible = "0"

CpuLaunch ==
    /\ HasOption(cmd, "--device", "cpu")
    /\ ~HasOption(cmd, "--device", "cuda")
    /\ cuda_visible = ""
    /\ ~HasArg(cmd, "--mem-fraction-static")

DeviceChosen == "get_system_info" \in steps

C8_WitnessFallback ==
    args.gpu /\ ~args.cpu /\ ~system_info.has_cuda /\ Launched /\ CpuLaunch

\* C9: with --cpu, whatever --gpu, CUDA and the GPU memory are, use_gpu is
\* False, and a server that is launched gets `--device cpu`, an empty
\* CUDA_VISIBLE_DEVICES and no --mem-fraction-static.
C9_CpuFlagForcesCpu ==
    args.cpu
        => /\ ~use_gpu
           /\ DeviceChosen => select_msg = "cpu_forced"
           /\ Launched => CpuLaunch

C9_Witness ==
    /\ args.cpu /\ args.gpu /\ system_info.has_cuda
    /\ system_info.gpu_memory_gb = 40 /\ Launched /\ server = "running"

\* C10: with neither flag, use_gpu is True exactly when CUDA is available and
\* the GPU memory is at least 24 GB, in both scripts; in chat_qwen3_30b.py 40
\* GB only changes the message; without CUDA the memory is 0 and CPU is chosen.
C10_AutoDetect ==
    (~args.gpu /\ ~args.cpu /\ DeviceChosen)
        => /\ use_gpu <=> (system_info.has_cuda /\ system_info.gpu_memory_gb >= 24)
           /\ ~system_info.has_cuda
                  => (system_info.gpu_memory_gb = 0 /\ select_msg = "cpu_no_cuda")
           /\ (use_gpu /\ script = "chat_qwen3_30b")
                  => select_msg = IF system_info.gpu_memory_gb >= 40
                                  THEN "auto_gpu" ELSE "auto_gpu_tight"
           /\ (use_gpu /\ script = "chat_gpt_oss_20b") => select_msg = "auto_gpu"
           /\ Launched => IF use_gpu THEN GpuLaunch ELSE CpuLaunch

C10_Witness ==
    /\ ~args.gpu /\ ~args.cpu /\ script = "chat_qwen3_30b"
    /\ system_info.gpu_memory_gb = 39 /\ use_gpu /\ Launched /\ GpuLaunch

(***************************************************************************)
(* find_model_path on its own: main() at the call, over every file system. *)
(***************************************************************************)
InitFind ==
    /\ script \in Scripts
    /\ args \in [gpu : BOOLEAN, cpu : BOOLEAN]
    /\ fs_input \in FileSystems
    /\ last_line = NoLine
    /\ pc = "find_model"
    /\ model_path = None
    /\ system_info = [has_cuda |-> FALSE, gpu_memory_gb |-> 0]
    /\ use_gpu = FALSE
    /\ select_msg = "none"
    /\ errors = {}
    /\ steps = {"check_sglang_installed"}
    /\ server = "none"
    /\ popen_calls = 0
    /\ cmd = <<>>
    /\ cuda_visible = "unset"
    /\ elapsed = 0
    /\ health = [polled |-> FALSE, last |-> "none", ready |-> FALSE,
                 after_ready |-> FALSE]
    /\ wfs_result = "none"
    /\ conversation_history = <<>>
    /\ response = "none"
    /\ request = NoRequest
    /\ last_event = "none"
    /\ turns_left = MaxTurns
    /\ posted = FALSE
    /\ pending = "none"
    /\ shutdown = [terminate_calls |-> 0, wait_calls |-> 0, kill_calls |-> 0,
                 exit_delay |-> NotTerminated]
    /\ result = "running"
    /\ exit_status = -1

NextFind ==
    \/ FindModel(fs_input)
    \/ SysExit

SpecFind == InitFind /\ [][NextFind]_vars

\* the names under snapshots/ that are directories
SnapshotDirs(c) ==
    {n \in SnapshotNames : c.entries[n] = "dir" \/ c.entries[n] = "dir_with_config"}

\* of "9" and "10", the lexicographically greatest is "9"
GreatestName(names) == IF <<"9">> \in names THEN <<"9">> ELSE <<"1", "0">>

\* the candidate exists, has a snapshots subdirectory with a subdirectory, and
\* its lexicographically last snapshot holds config.json
Qualifies(c) ==
    /\ c.exists /\ c.snapshots = "dir" /\ SnapshotDirs(c) # {}
    /\ c.entries[GreatestName(SnapshotDirs(c))] = "dir_with_config"

FirstQualifying(i) ==
    Qualifies(fs_input[i]) /\ \A j \in 1..(i - 1) : ~Qualifies(fs_input[j])

\* main has called find_model_path and the call is over
ModelLookedUp == "find_model_path" \in steps

\* find_model_path returned None: main reports the model missing, returns 1
ReturnedNone == ModelMissing /\ model_path = None /\ result = "return 1"

\* find_model_path returned path p: main goes on with it
Returned(p) == model_path = p /\ p # None /\ ~ModelMissing /\ pc = "determine_device"

\* a candidate reached by the loop holds a regular file named snapshots
ListdirRaises ==
    \E i \in 1..3 : /\ fs_input[i].exists /\ fs_input[i].snapshots = "file"
                    /\ \A j \in 1..(i - 1) : ~Qualifies(fs_input[j])

\* C11: find_model_path probes the candidates in list order and looks, in each
\* that exists and has a snapshots subdirectory with a subdirectory, only at
\* the lexicographically greatest snapshot name.  It returns None exactly when
\* no candidate's lexicographically last snapshot holds config.json, and
\* otherwise returns that snapshot of the earliest qualifying candidate; an
\* older snapshot is never tried.
C11_FindModelPath ==
    ModelLookedUp =>
        /\ (\A i \in 1..3 : ~Qualifies(fs_input[i])) => ReturnedNone
        /\ \A i \in 1..3 :
               FirstQualifying(i)
                   => Returned(SnapshotPath(i, GreatestName(SnapshotDirs(fs_input[i]))))

\* the same, where os.listdir is only reached on directories; and where it is
\* reached on a regular file, NotADirectoryError leaves main
C11_FindModelPathListable ==
    ModelLookedUp =>
        /\ ~ListdirRaises => C11_FindModelPath
        /\ ListdirRaises <=> result = "raise NotADirectoryError"
        /\ ListdirRaises => (MainOver /\ model_path = None /\ ~ModelMissing)

\* the first candidate's newest snapshot lacks config.json and its older one
\* has it: the second candidate's snapshot is returned
C11_WitnessSkipsOlder ==
    /\ ModelLookedUp
    /\ fs_input[1].entries[<<"9">>] = "dir"
    /\ fs_input[1].entries[<<"1", "0">>] = "dir_with_config"
    /\ Returned(SnapshotPath(2, <<"1", "0">>))

\* every candidate's newest snapshot lacks config.json: None, though older
\* snapshots hold it
C11_WitnessNone ==
    /\ ModelLookedUp /\ ReturnedNone
    /\ \A i \in 1..3 : /\ fs_input[i].entries[<<"9">>] = "dir"
                       /\ fs_input[i].entries[<<"1", "0">>] = "dir_with_config"

\* the first candidate holds a file named snapshots, the second qualifies:
\* the call raises and main is over with exit status 1
C11_WitnessRaises ==
    /\ fs_input[1].snapshots = "file" /\ Qualifies(fs_input[2])
    /\ pc = "exited" /\ result = "raise NotADirectoryError" /\ exit_status = 1

(***************************************************************************)
(* The CPU confirmation prompt.                                            *)
(***************************************************************************)
Prompted == "cpu_prompt" \in steps

\* last_line is still the answer to "Continue? [Y/n]"
ConfirmAnswered == Prompted /\ last_line # NoLine /\ "chat_with_model" \notin steps

\* the typed lines that read n or no once stripped and lower-cased
DeclineLines == { <<"n">>, <<" ", "N", "\t">>, <<"N", "O">> }

\* the other typed lines: empty, y, not, "n o"
ProceedLines == { <<>>, <<"y">>, <<"n", "o", "t">>, <<"n", " ", "o">> }

C12_Prompted ==
    /\ Prompted => (DeviceChosen /\ ~use_gpu /\ select_msg \in
                       {"cpu_forced", "gpu_unavailable_fallback", "cpu_low_vram",
                        "cpu_no_cuda"})
    /\ use_gpu => (~Prompted /\ pc # "confirm_cpu")
    /\ (Launched /\ ~use_gpu) => (Prompted /\ last_line # NoLine)
    /\ pc = "start_server" => (popen_calls = 0 /\ (use_gpu \/ Prompted))
    /\ ConfirmAnswered => last_line \in DeclineLines \cup ProceedLines
    /\ (ConfirmAnswered /\ last_line \in DeclineLines)
           => /\ MainOver /\ result = "return 0"
              /\ pc = "exited" => exit_status = 0
              /\ popen_calls = 0 /\ server = "none" /\ cmd = <<>>
              /\ "start_sglang_server" \notin steps
    /\ (ConfirmAnswered /\ last_line \in ProceedLines)
           => (pc = "start_server" \/ Launched)

C12_AnswerStep ==
    /\ (pc = "confirm_cpu" /\ last_line' \in DeclineLines)
           => (pc' = "main_done" /\ result' = "return 0" /\ popen_calls' = 0)
    /\ (pc = "confirm_cpu" /\ last_line' \in ProceedLines) => pc' = "start_server"
    /\ pc = "start_server" => popen_calls' = 1

\* C12: in CPU mode, however it was selected, main asks "Continue? [Y/n]"
\* before it spawns anything; a line that reads n or no once stripped and
\* lower-cased makes main return 0 with no Popen call ever made, any other
\* line, the empty one included, is followed by the spawn; in GPU mode the
\* prompt is not shown.
C12_CpuPrompt == []C12_Prompted /\ [][C12_AnswerStep]_vars

\* " N<tab>" was typed after --gpu fell back to CPU: exit status 0, no spawn
C12_Witness ==
    /\ select_msg = "gpu_unavailable_fallback"
    /\ last_line = <<" ", "N", "\t">>
    /\ pc = "exited" /\ exit_status = 0 /\ popen_calls = 0

\* the empty line was typed and the server was spawned in CPU mode
C12_WitnessProceeds ==
    /\ ConfirmAnswered /\ last_line = <<>> /\ Spawned /\ CpuLaunch

\* "n o" is not a refusal
C12_WitnessNotNo ==
    /\ ConfirmAnswered /\ last_line = <<"n", " ", "o">> /\ Spawned

\* GPU mode: spawned without a prompt
C12_WitnessGpu == use_gpu /\ Spawned /\ ~Prompted

(***************************************************************************)
(* The ways out of the chat loop.                                          *)
(***************************************************************************)
\* the typed lines that read quit, exit or bye once stripped and lower-cased
QuitLines == { <<"q", "u", "i", "t">>, <<" ", "E", "x", "i", "t">>,
               <<"B", "Y", "E", " ">> }

\* the typed lines with nothing but whitespace
BlankLines == { <<>>, <<" ", "\t">> }

\* the step leaves the while loop
LeavesLoop == InChat /\ pc' \notin {"chat_input", "chat_post"}

C13_LoopState ==
    /\ InChat => (last_event \notin {"goodbye", "interrupted"} /\ pending = "none")
    /\ ~InChat => (last_event \in {"goodbye", "interrupted"} /\ pending = "return 0")
    /\ last_event = "goodbye" => last_line \in QuitLines
    /\ pc = "chat_post" => (last_event = "thinking" /\ request.sent)
    /\ pc = "chat_input" => (last_line \notin QuitLines /\ ~request.sent)

C13_LoopStep ==
    /\ LeavesLoop
           => /\ pc' = "finally" /\ pending' = "return 0"
              /\ \/ pc = "chat_input" /\ last_event' = "goodbye"
                    /\ last_line' \in QuitLines
                 \/ last_event' = "interrupted"
    /\ (pc = "chat_input" /\ last_line' \in QuitLines)
           => (LeavesLoop /\ last_event' = "goodbye")
    /\ (InChat /\ last_event' = "interrupted") => LeavesLoop
    /\ (InChat /\ last_event' = "empty_line")
           => /\ pc = "chat_input" /\ pc' = "chat_input"
              /\ last_line' \in BlankLines
              /\ ~request'.sent
              /\ UNCHANGED << conversation_history, request, posted >>
    /\ (pc = "chat_input" /\ last_line' \in BlankLines)
           => (last_event' \in {"empty_line", "interrupted", "unexpected_error"}
               /\ UNCHANGED << conversation_history, request, posted >>)
    /\ (InChat /\ last_event' \in {"unexpected_error", "assistant", "no_response",
                                   "server_error", "timed_out", "request_failed"})
           => (pc' = "chat_input" /\ pending' = "none")
    /\ (InChat /\ last_event' = "thinking") => pc' = "chat_post"

\* C13: chat_with_model leaves its loop only when the stripped input reads
\* quit, exit or bye in any letter case, or on a KeyboardInterrupt; every
\* other event is followed by another prompt: a whitespace-only line sends no
\* request and leaves the history unchanged, and any other exception (EOFError
\* from input(), a malformed 200 body) is reported and the loop goes on.
C13_LoopExits == []C13_LoopState /\ [][C13_LoopStep]_vars

\* " Exit" was typed after a message: the loop is left with return 0 pending
C13_Witness ==
    /\ pc = "finally" /\ last_event = "goodbye"
    /\ last_line = <<" ", "E", "x", "i", "t">>
    /\ Len(conversation_history) > 0

\* input() raised EOFError before any message: back at the prompt
C13_WitnessEof ==
    pc = "chat_input" /\ last_event = "unexpected_error" /\ ~posted

\* a 200 answer with a malformed body: back at the prompt, no reply stored
C13_WitnessMalformed ==
    /\ pc = "chat_input" /\ last_event = "unexpected_error"
    /\ Len(conversation_history) = 1

\* a whitespace-only line after a message: nothing sent
C13_WitnessBlank ==
    /\ pc = "chat_input" /\ last_event = "empty_line"
    /\ last_line = <<" ", "\t">> /\ Len(conversation_history) > 0

\* Ctrl-C while the request is out
C13_WitnessCtrlC ==
    pc = "finally" /\ last_event = "interrupted" /\ Len(conversation_history) = 1

(***************************************************************************)
(* What a chat turn does to the history.                                   *)
(***************************************************************************)
\* the answers that carry no assistant reply
NoReplyOutcomes ==
    {"Timeout", "RequestException", "503", "200_no_choices", "200_empty_choices"}

\* the message " Hi " is entered as
HiMessage == [role |-> "user", content |-> <<"H", "i">>]

OkMessage == [role |-> "assistant", content |-> <<"o", "k">>]

\* the step sends a message
MessageStep == pc = "chat_input" /\ pc' = "chat_post"

\* the step handles the answer to the POST
AnswerStep == pc = "chat_post"

C14_Payload ==
    pc = "chat_post"
        => /\ request.sent /\ request.messages = conversation_history
           /\ Len(conversation_history) >= 1
           /\ conversation_history[Len(conversation_history)] = HiMessage

C14_TurnStep ==
    /\ MessageStep
           => /\ last_line' = <<" ", "H", "i", " ">>
              /\ conversation_history' = Append(conversation_history, HiMessage)
              /\ request'.sent /\ request'.messages = conversation_history'
    /\ (AnswerStep /\ response' \in NoReplyOutcomes)
           => /\ conversation_history' = conversation_history
              /\ conversation_history'[Len(conversation_history')] = HiMessage
              /\ pc' = "chat_input"
    /\ (AnswerStep /\ response' = "200_choices")
           => LET h == Append(conversation_history, OkMessage)
              IN  conversation_history' =
                      IF Len(h) > 20 THEN SubSeq(h, Len(h) - 19, Len(h)) ELSE h
    /\ conversation_history' # conversation_history
           => (MessageStep \/ (AnswerStep /\ response' = "200_choices"))

\* C14: a turn that yields no assistant reply (timeout, request exception,
\* non-200 status, 200 without or with empty choices) leaves the history as
\* it was before the turn plus the user's message: nothing is taken back,
\* no assistant entry is added, nothing is cut off.  An assistant entry is
\* added only after a 200 answer with non-empty choices, and the messages of
\* every request are the whole history, ending with the message just entered.
C14_FailedTurnKeepsMessage == []C14_Payload /\ [][C14_TurnStep]_vars

\* ten answered turns, then a turn answered 200 with empty choices: 21
\* entries, the last one the user's
C14_Witness ==
    /\ pc = "chat_input" /\ response = "200_empty_choices"
    /\ Len(conversation_history) = 21
    /\ conversation_history[21] = HiMessage

\* a request that timed out, then the next request: both user messages sent
C14_WitnessResend ==
    /\ pc = "chat_post" /\ Len(request.messages) = 2
    /\ request.messages[1] = HiMessage /\ request.messages[2] = HiMessage

\* the reply that makes 21 entries is stored and the oldest entry cut off
C14_WitnessTruncates ==
    /\ pc = "chat_input" /\ response = "200_choices"
    /\ Len(conversation_history) = 20
    /\ conversation_history[1] = OkMessage

(***************************************************************************)
(* Shutdown.                                                               *)
(***************************************************************************)
\* the finally block has run
ShutDown == "finally" \in steps

\* the server exited within the 10 seconds of the wait
ExitedInTime == shutdown.exit_delay >= 0 /\ shutdown.exit_delay < 10

\* the server was still running when the wait expired
Outlived == shutdown.exit_delay > 10

\* C15: the finally block calls terminate() once and wait(timeout=10) once and
\* nothing else; kill() is never called.  main returns its status (0 after
\* the chat, 1 after a readiness timeout) only if the server exits within
\* the wait; otherwise TimeoutExpired leaves main in place of the status and
\* the server is left running.
C15_Shutdown ==
    /\ shutdown.kill_calls = 0
    /\ shutdown.wait_calls = shutdown.terminate_calls
    /\ ~ShutDown => (shutdown.terminate_calls = 0 /\ shutdown.exit_delay = -1)
    /\ ShutDown
           => /\ Spawned /\ MainOver
              /\ shutdown.terminate_calls = 1 /\ shutdown.wait_calls = 1
              /\ ExitedInTime \/ Outlived
    /\ (ShutDown /\ ExitedInTime)
           => /\ server = "exited" /\ result = pending
              /\ "chat_with_model" \in steps
                     => (result = "return 0" /\ (pc = "exited" => exit_status = 0))
              /\ wfs_result = "False"
                     => (result = "return 1" /\ (pc = "exited" => exit_status = 1))
    /\ (ShutDown /\ Outlived)
           => /\ server = "running" /\ result = "raise TimeoutExpired"
              /\ pc = "exited" => exit_status = 1
    /\ (Spawned /\ MainOver /\ result \in {"return 0", "return 1"})
           => (ExitedInTime /\ server = "exited")

\* after the chat was left by quit, the server took 11 seconds: the process
\* ends with TimeoutExpired, status 1, server running, no kill()
C15_Witness ==
    /\ last_event = "goodbye" /\ pending = "return 0"
    /\ shutdown.exit_delay = 11
    /\ pc = "exited" /\ exit_status = 1 /\ result = "raise TimeoutExpired"
    /\ server = "running"

\* readiness timed out and the server exited after 9 seconds: status 1
C15_WitnessReturns1 ==
    /\ wfs_result = "False" /\ shutdown.exit_delay = 9
    /\ pc = "exited" /\ exit_status = 1 /\ result = "return 1" /\ server = "exited"

\* chat left, the server exited at once: status 0
C15_WitnessReturns0 ==
    /\ "chat_with_model" \in steps /\ shutdown.exit_delay = 0
    /\ pc = "exited" /\ exit_status = 0 /\ server = "exited"

=============================================================================
